---- MODULE Spec2Model ----
(***************************************************************************)
(* Model of src/main.py: the /extract-flashcards endpoint, the process-    *)
(* wide API key cycler, the chunk loop and the retrying Gemini call.       *)
(*                                                                         *)
(* Strings are sequences.  A response text of the generation API is a      *)
(* sequence of lexemes:                                                    *)
(*   "FJ" the characters ```json      "F"  the characters ```              *)
(*   "[" "]" ","  JSON punctuation    "w"  a run of whitespace             *)
(*   "1".."9"  a JSON number          "s"  a JSON string literal           *)
(*   "o"  a JSON object literal       "true" "null"  JSON literals         *)
(*   "x"  a word of prose (not JSON)                                       *)
(* A decoded JSON array is the sequence of its elements, each element the  *)
(* whitespace-free lexeme sequence of its value.                           *)
(***************************************************************************)
EXTENDS Integers, Sequences, FiniteSets, TLC

\* ------------------------------------------------------------------ bounds
MaxTextLen == 3
MaxChunkSize == 2
MaxRetries == 3
MaxDraws == 2
ConcTextLen == 1
MaxPages == 2
MaxParts == 2
ConcRetries == 2

\* The default of parameter delay of call_gemini_api_for_extraction, which
\* its one caller (line 146) never overrides
delay == 2

\* Threads of the process.  Spec handles one request at a time on thread 1.
Threads == {1, 2}
SeqThreads == {1}

\* ------------------------------------------------------- input domains
Alphabet == <<"1", "2", "3", "4", "5", "6", "7", "8", "9">>

\* Extracted PDF texts: the slicing never inspects characters, so a text
\* whose characters are pairwise distinct shows every drop, overlap or swap.
Texts == {SubSeq(Alphabet, 1, n) : n \in 0..MaxTextLen}

\* GEMINI_API_KEYS: unset, or a string given as its comma-separated fields
\* (each field a sequence of characters; "" is the one empty field).
EnvUnset == [set |-> FALSE, fields |-> << >>]
EnvStrings ==
  { << << >> >>,
    << <<" ">>, << >> >>,
    << <<"a">> >>,
    << <<" ", "a">>, <<"b", " ">> >>,
    << <<"a">>, << >>, <<"b">>, <<"c">> >>,
    << <<"a">>, <<"a">> >> }
Envs == {EnvUnset} \cup {[set |-> TRUE, fields |-> f] : f \in EnvStrings}

\* request.json: an absent or falsy body ("none"); a truthy JSON number or
\* boolean ("scalar"); a JSON array or string, which has each of the two
\* names as a member ("listed") or not ("absent"); or an object whose two
\* fields are absent, empty or filled.
Bodies ==
  {[shape |-> "none", pdfContent |-> "absent", customPrompt |-> "absent"],
   [shape |-> "scalar", pdfContent |-> "absent", customPrompt |-> "absent"]}
  \cup {[shape |-> "array", pdfContent |-> p, customPrompt |-> c] :
          p \in {"absent", "listed"}, c \in {"absent", "listed"}}
  \cup {[shape |-> "object", pdfContent |-> p, customPrompt |-> c] :
          p \in {"absent", "", "notb64", "pdf"}, c \in {"absent", "", "prompt"}}

\* ------------------------------------------------------- string helpers
RECURSIVE LStrip(_)
LStrip(s) ==
  IF s # << >> /\ Head(s) \in {" ", "w"} THEN LStrip(Tail(s)) ELSE s

RECURSIVE RStrip(_)
RStrip(s) ==
  IF s # << >> /\ s[Len(s)] \in {" ", "w"}
  THEN RStrip(SubSeq(s, 1, Len(s) - 1)) ELSE s

\* str.strip()
Strip(s) == RStrip(LStrip(s))

\* The comprehension without its filter: blank entries stay in the pool
ParseKeysKeepBlank(fields) == [i \in 1..Len(fields) |-> Strip(fields[i])]

\* [f(x) for x in s if p(x)] with f = strip and p = non-empty after strip
RECURSIVE ParseKeys(_)
ParseKeys(fields) ==
  IF fields = << >> THEN << >>
  ELSE IF Strip(Head(fields)) # << >>
       THEN <<Strip(Head(fields))>> \o ParseKeys(Tail(fields))
       ELSE ParseKeys(Tail(fields))

\* `not API_KEYS_STR`: the variable is unset or the empty string
EnvFalsy(e) == ~e.set \/ e.fields = << << >> >>

\* ------------------------------------------------ the api_key_cycler
None == [active |-> FALSE, saved |-> << >>, pos |-> 0]

\* itertools.cycle(keys)
Cycle(keys) == [active |-> TRUE, saved |-> keys, pos |-> 1]

\* next(api_key_cycler): the key returned, and the cycler afterwards
NextKey(c) == c.saved[c.pos]

\* Advance that starts the second and later rounds at the second key
AdvanceSkipFirst(c) ==
  [c EXCEPT !.pos = IF c.pos = Len(c.saved) THEN (IF Len(c.saved) > 1 THEN 2 ELSE 1)
                    ELSE c.pos + 1]

Advance(c) == [c EXCEPT !.pos = IF c.pos = Len(c.saved) THEN 1 ELSE c.pos + 1]

\* ------------------------------------------------------- JSON decoding
Scalars == {"1", "2", "3", "4", "5", "6", "7", "8", "9", "s", "o", "true", "null"}
Unsized == {"1", "2", "3", "4", "5", "6", "7", "8", "9", "true", "null"}

RECURSIVE DropWs(_)
DropWs(s) ==
  IF s = << >> THEN << >>
  ELSE IF Head(s) = "w" THEN DropWs(Tail(s)) ELSE <<Head(s)>> \o DropWs(Tail(s))

\* The position after the JSON value that starts at t[p]; 0 when none does.
RECURSIVE ValueEnd(_, _), ElemsEnd(_, _, _)
ValueEnd(t, p) ==
  IF p > Len(t) THEN 0
  ELSE IF t[p] \in Scalars THEN p + 1
  ELSE IF t[p] = "[" THEN ElemsEnd(t, p + 1, TRUE)
  ELSE 0

ElemsEnd(t, p, first) ==
  IF p > Len(t) THEN 0
  ELSE IF first /\ t[p] = "]" THEN p + 1
  ELSE LET q == ValueEnd(t, p) IN
       IF q = 0 \/ q > Len(t) THEN 0
       ELSE IF t[q] = "]" THEN q + 1
       ELSE IF t[q] = "," THEN ElemsEnd(t, q + 1, FALSE)
       ELSE 0

\* The elements of the array whose "[" is just before t[p].
RECURSIVE Elems(_, _)
Elems(t, p) ==
  IF t[p] = "]" THEN << >>
  ELSE LET q == ValueEnd(t, p) IN
       <<SubSeq(t, p, q - 1)>> \o (IF t[q] = "," THEN Elems(t, q + 1) ELSE << >>)

\* json.loads(s): ok = FALSE is JSONDecodeError
JsonLoads(s) ==
  LET t == DropWs(s) IN
  IF t = << >> \/ ValueEnd(t, 1) # Len(t) + 1
  THEN [ok |-> FALSE, kind |-> "error", items |-> << >>]
  ELSE IF t[1] = "[" THEN [ok |-> TRUE, kind |-> "list", items |-> Elems(t, 2)]
  ELSE [ok |-> TRUE, kind |-> t[1], items |-> << >>]

\* ------------------------------------------------------ the regex search
\* \s* from position p: the position of the first lexeme that is not space
RECURSIVE SkipWs(_, _)
SkipWs(s, p) == IF p <= Len(s) /\ s[p] = "w" THEN SkipWs(s, p + 1) ELSE p

\* ``` matches the lexeme ``` and the first characters of ```json
IsFence(tok) == tok \in {"F", "FJ"}

\* (\[.*?\])\s*``` with "[" at position b: the closing positions that match
Closers(s, b) ==
  {k \in (b + 1)..Len(s) :
     /\ s[k] = "]"
     /\ SkipWs(s, k + 1) <= Len(s)
     /\ IsFence(s[SkipWs(s, k + 1)])}

\* ```json\s*\[ starting at position i: TRUE when the whole pattern matches
MatchesAt(s, i) ==
  /\ s[i] = "FJ"
  /\ SkipWs(s, i + 1) <= Len(s)
  /\ s[SkipWs(s, i + 1)] = "["
  /\ Closers(s, SkipWs(s, i + 1)) # {}

Min(S) == CHOOSE x \in S : \A y \in S : x <= y

\* re.search(r'```json\s*(\[.*?\])\s*```', raw_text, re.DOTALL):
\* leftmost start, lazy group; found = FALSE is `match is None`
RegexSearch(s) ==
  LET starts == {i \in 1..Len(s) : MatchesAt(s, i)} IN
  IF starts = {} THEN [found |-> FALSE, group |-> << >>]
  ELSE LET b == SkipWs(s, Min(starts) + 1) IN
       [found |-> TRUE, group |-> SubSeq(s, b, Min(Closers(s, b)))]


\* ------------------------------------------------- the generation API
RECURSIVE Join(_)
Join(c) == IF Len(c) <= 1 THEN c ELSE <<Head(c), ",">> \o Join(Tail(c))

\* The JSON array with one number per character of the chunk
ArrayOf(c) == <<"[">> \o Join(c) \o <<"]">>

\* Response texts the API may return for a chunk (response.text)
Responses(c) ==
  { ArrayOf(c),
    <<"x", "w", "FJ", "w">> \o ArrayOf(c) \o <<"w", "F", "w", "x">>,
    <<"w", "[", "w", "]">>,
    <<"o">>, <<"s">>, <<"1">>, <<"true">>, <<"null">>,
    <<"x", "w", "x">>,
    <<"FJ", "[", "1", ",", "]", "F">> }

\* ------------------------------------------- extract_text_from_pdf_bytes
\* A page-range string is a sequence of lexemes: the digits, "-", "," and
\* " " (a whitespace character).
Digits == <<"0", "1", "2", "3", "4", "5", "6", "7", "8", "9">>

IsDigit(c) == \E i \in 1..Len(Digits) : Digits[i] = c

DigitValue(c) == (CHOOSE i \in 1..Len(Digits) : Digits[i] = c) - 1

Has(s, c) == \E i \in 1..Len(s) : s[i] = c

\* s.split(sep)
RECURSIVE Split(_, _)
Split(s, sep) ==
  IF ~Has(s, sep) THEN <<s>>
  ELSE LET k == Min({i \in 1..Len(s) : s[i] = sep}) IN
       <<SubSeq(s, 1, k - 1)>> \o Split(SubSeq(s, k + 1, Len(s)), sep)

\* The number written by a sequence of digits
RECURSIVE Decimal(_)
Decimal(s) ==
  IF s = << >> THEN 0
  ELSE 10 * Decimal(SubSeq(s, 1, Len(s) - 1)) + DigitValue(s[Len(s)])

\* int(s.strip()): ok = FALSE is ValueError
ParseInt(s) ==
  LET d == Strip(s) IN
  IF d # << >> /\ \A i \in 1..Len(d) : IsDigit(d[i])
  THEN [ok |-> TRUE, value |-> Decimal(d)]
  ELSE [ok |-> FALSE, value |-> 0]

\* range(a, b + 1) as a list
RangeList(a, b) == [i \in 1..(IF b >= a THEN b - a + 1 ELSE 0) |-> a + i - 1]

\* lines 54-61: the pages one part of the string adds; ok = FALSE is the
\* ValueError of int() or of unpacking split('-') into two names
PartPages(part) ==
  LET p == Strip(part) IN
  IF Has(p, "-")
  THEN LET halves == Split(p, "-") IN
       IF Len(halves) # 2 THEN [ok |-> FALSE, pages |-> << >>]
       ELSE IF ~ParseInt(halves[1]).ok \/ ~ParseInt(halves[2]).ok
       THEN [ok |-> FALSE, pages |-> << >>]
       ELSE [ok |-> TRUE,
             pages |-> RangeList(ParseInt(halves[1]).value, ParseInt(halves[2]).value)]
  ELSE IF ParseInt(p).ok THEN [ok |-> TRUE, pages |-> <<ParseInt(p).value>>]
       ELSE [ok |-> FALSE, pages |-> << >>]

\* lines 53-61: pages_to_extract after the loop over the parts
RECURSIVE ListedPages(_)
ListedPages(parts) ==
  IF parts = << >> THEN [ok |-> TRUE, pages |-> << >>]
  ELSE LET h == PartPages(Head(parts))
           r == ListedPages(Tail(parts)) IN
       IF h.ok /\ r.ok THEN [ok |-> TRUE, pages |-> h.pages \o r.pages]
       ELSE [ok |-> FALSE, pages |-> << >>]

\* sorted(list(S))
RECURSIVE Sorted(_)
Sorted(S) == IF S = {} THEN << >> ELSE <<Min(S)>> \o Sorted(S \ {Min(S)})

\* The filter of line 64 without the set(): repeated pages stay
InBoundsKeepRepeats(pages, n) ==
  SelectSeq(pages, LAMBDA p : 1 <= p /\ p <= n)

\* line 64: sorted(list(set(p for p in pages_to_extract if 1 <= p <= n)))
InBounds(pages, n) ==
  Sorted({pages[i] : i \in {j \in 1..Len(pages) : 1 <= pages[j] /\ pages[j] <= n}})

\* lines 52-66: pages_to_extract for a document of n pages
PagesToExtract(range, n) ==
  IF range.given /\ range.text # << >>
  THEN LET l == ListedPages(Split(range.text, ",")) IN
       [ok |-> l.ok, pages |-> InBounds(l.pages, n)]
  ELSE [ok |-> TRUE, pages |-> [i \in 1..n |-> i]]

\* page.get_text() of page p: every page holds one character, its number
PageText(p) == <<Digits[p + 1]>>

\* lines 68-70: the texts of the pages, concatenated
RECURSIVE TextOf(_)
TextOf(pages) ==
  IF pages = << >> THEN << >> ELSE PageText(Head(pages)) \o TextOf(Tail(pages))

\* ---------------------------------------------------------------- state
VARIABLES
  env,             \* os.environ.get("GEMINI_API_KEYS")
  retries,         \* parameter retries of call_gemini_api_for_extraction
  chunk_size,      \* parameter chunk_size of process_text_in_chunks_for_api
  api_key_cycler,  \* global api_key_cycler
  API_KEYS_LIST,   \* global API_KEYS_LIST
  genai_key,       \* the key genai.configure() set last
  drawLog,         \* history: every key next(api_key_cycler) returned
  local,           \* per thread: position and local variables
  hist             \* per thread: history of the request being handled

vars == <<env, retries, chunk_size, api_key_cycler, API_KEYS_LIST, genai_key,
          drawLog, local, hist>>

NoResponse == [status |-> 0, error |-> "", flashcards |-> << >>]

\* data.get('pageRange') when the body has no pageRange: Python's None
NoRange == [given |-> FALSE, text |-> << >>]

\* document: len(document), the pages of the PDF
\* pages_read: the page numbers handed to load_page, plus one, in order
IdleLocal ==
  [pc |-> "idle", ret |-> "endpoint",
   data |-> [shape |-> "none", pdfContent |-> "absent", customPrompt |-> "absent"],
   pdf_text |-> << >>, offset |-> 0, chunk |-> << >>, attempt |-> 0,
   current_api_key |-> << >>, raw_text |-> << >>, chunk_data |-> << >>,
   all_flashcards |-> << >>, response |-> NoResponse,
   page_range |-> NoRange, document |-> 0, pages_read |-> << >>]

\* calls: the chunks handed to call_gemini_api_for_extraction, with offsets
\* results: what each of those calls returned
\* drawn, apiCalls, firstOk, nonArray: of the call in progress: the keys it
\* drew, its generate_content calls, the first attempt (1-based) whose
\* generate_content returned a text (0: none yet), and whether a text it
\* returned did not decode to a JSON array
\* sleeps: the seconds of each backoff sleep of the call in progress
\* auth: the key each of its generate_content calls went out under
\* noRecords: a text it returned did not decode to an array with elements
NoCall == [drawn |-> << >>, apiCalls |-> 0, firstOk |-> 0, nonArray |-> FALSE,
           sleeps |-> << >>, auth |-> << >>, noRecords |-> FALSE]
\* extracted: extract_text_from_pdf_bytes has returned a text
\* pauses: the seconds of each time.sleep of the chunk loop
\* items: the page numbers and a-b ranges the request's pageRange was
\* written from, in order (wellFormed: it was written from such a list)
IdleHist ==
  [extracted |-> FALSE, calls |-> << >>, results |-> << >>, call |-> NoCall,
   pauses |-> << >>, wellFormed |-> TRUE, items |-> << >>]

Init ==
  /\ env \in Envs
  /\ retries \in 1..MaxRetries
  /\ chunk_size \in 1..MaxChunkSize
  /\ api_key_cycler = None
  /\ API_KEYS_LIST = << >>
  /\ genai_key = << >>
  /\ drawLog = << >>
  /\ local = [t \in Threads |-> IdleLocal]
  /\ hist = [t \in Threads |-> IdleHist]

Respond(t, status, error, flashcards) ==
  local' = [local EXCEPT ![t].pc = "done",
              ![t].response = [status |-> status, error |-> error,
                               flashcards |-> flashcards]]

\* ------------------------------------------- extract_flashcards_endpoint
\* A POST arrives and the handler calls initialize_gemini_api_keys()
ReceiveRequest(t) ==
  /\ local[t].pc = "idle"
  /\ Len(drawLog) < MaxDraws
  /\ \E d \in Bodies :
       local' = [local EXCEPT ![t] = [IdleLocal EXCEPT !.pc = "init_test", !.data = d]]
  /\ hist' = [hist EXCEPT ![t] = IdleHist]
  /\ UNCHANGED <<env, retries, chunk_size, api_key_cycler, API_KEYS_LIST,
                 genai_key, drawLog>>

\* ----------------------------------------- initialize_gemini_api_keys
\* line 26: if api_key_cycler is None
InitTest(t) ==
  /\ local[t].pc = "init_test"
  /\ local' = [local EXCEPT ![t].pc =
                 IF api_key_cycler = None THEN "init_load" ELSE "init_draw"]
  /\ UNCHANGED <<env, retries, chunk_size, api_key_cycler, API_KEYS_LIST,
                 genai_key, drawLog, hist>>

\* raise ValueError in initialize_gemini_api_keys: the endpoint answers it
\* 500 (lines 170-172); called from line 87 it leaves the call and the loop
RaiseValueError(t) ==
  IF local[t].ret = "endpoint"
  THEN Respond(t, 500, "Server configuration error", << >>)
  ELSE local' = [local EXCEPT ![t].pc = "raised"]

\* lines 27-34: read and split the variable, build the cycler or raise
InitLoad(t) ==
  /\ local[t].pc = "init_load"
  /\ LET keys == ParseKeys(env.fields) IN
     IF EnvFalsy(env)
     THEN /\ RaiseValueError(t)
          /\ UNCHANGED <<api_key_cycler, API_KEYS_LIST>>
     ELSE IF keys = << >>
     THEN /\ RaiseValueError(t)
          /\ API_KEYS_LIST' = keys
          /\ UNCHANGED api_key_cycler
     ELSE /\ API_KEYS_LIST' = keys
          /\ api_key_cycler' = Cycle(keys)
          /\ local' = [local EXCEPT ![t].pc = "init_draw"]
  /\ UNCHANGED <<env, retries, chunk_size, genai_key, drawLog, hist>>

\* line 37: current_api_key = next(api_key_cycler)
InitDraw(t) ==
  /\ local[t].pc = "init_draw"
  /\ api_key_cycler # None
  /\ local' = [local EXCEPT ![t].pc = "init_configure",
                 ![t].current_api_key = NextKey(api_key_cycler)]
  /\ api_key_cycler' = Advance(api_key_cycler)
  /\ drawLog' = Append(drawLog, NextKey(api_key_cycler))
  /\ UNCHANGED <<env, retries, chunk_size, API_KEYS_LIST, genai_key, hist>>

\* line 38: genai.configure(api_key=current_api_key), then return
InitConfigure(t) ==
  /\ local[t].pc = "init_configure"
  /\ genai_key' = local[t].current_api_key
  /\ local' = [local EXCEPT ![t].pc =
                 IF local[t].ret = "endpoint" THEN "validate" ELSE "draw"]
  /\ UNCHANGED <<env, retries, chunk_size, api_key_cycler, API_KEYS_LIST,
                 drawLog, hist>>

\* ------------------------------------------- extract_flashcards_endpoint
\* line 175: not data
NoData(d) == d.shape = "none"

\* line 175: 'pdfContent' not in data or 'customPrompt' not in data
MissingField(d) == d.pdfContent = "absent" \/ d.customPrompt = "absent"

\* The check of line 182 left out
EmptyPdfContentUnchecked(d) == FALSE

\* line 182: not pdf_content_base64
EmptyPdfContent(d) == d.pdfContent = ""

\* lines 174-183: the body checks.  Outside the try, `in` raises TypeError
\* on a number or boolean (line 175) and the subscript raises it on an array
\* or string (line 178): the framework answers 500.
Validate(t) ==
  /\ local[t].pc = "validate"
  /\ LET d == local[t].data IN
     IF NoData(d)
     THEN Respond(t, 400, "Missing pdfContent or customPrompt in request body", << >>)
     ELSE IF d.shape = "scalar"
     THEN Respond(t, 500, "Internal Server Error", << >>)
     ELSE IF MissingField(d)
     THEN Respond(t, 400, "Missing pdfContent or customPrompt in request body", << >>)
     ELSE IF d.shape = "array"
     THEN Respond(t, 500, "Internal Server Error", << >>)
     ELSE IF EmptyPdfContent(d)
     THEN Respond(t, 400, "pdfContent cannot be empty", << >>)
     ELSE local' = [local EXCEPT ![t].pc = "extract"]
  /\ UNCHANGED <<env, retries, chunk_size, api_key_cycler, API_KEYS_LIST,
                 genai_key, drawLog, hist>>

\* lines 185-192: b64decode or extract_text_from_pdf_bytes raises, or the
\* text is extracted; an empty text is answered 400
Extract(t) ==
  /\ local[t].pc = "extract"
  /\ IF local[t].data.pdfContent = "notb64"
     THEN /\ local' = [local EXCEPT ![t].pc = "raised"]
          /\ UNCHANGED hist
     ELSE \/ /\ local' = [local EXCEPT ![t].pc = "raised"]
             /\ UNCHANGED hist
          \/ \E text \in Texts :
               /\ hist' = [hist EXCEPT ![t].extracted = TRUE]
               /\ IF text = << >>
                  THEN Respond(t, 400, "No text could be extracted from the PDF.", << >>)
                  ELSE local' = [local EXCEPT ![t].pc = "loop", ![t].pdf_text = text,
                                   ![t].offset = 0, ![t].all_flashcards = << >>]
  /\ UNCHANGED <<env, retries, chunk_size, api_key_cycler, API_KEYS_LIST,
                 genai_key, drawLog>>

\* lines 200-203: except Exception: the answer is 500 with str(e)
Catch(t) ==
  /\ local[t].pc = "raised"
  /\ Respond(t, 500, "exception", << >>)
  /\ UNCHANGED <<env, retries, chunk_size, api_key_cycler, API_KEYS_LIST,
                 genai_key, drawLog, hist>>

\* lines 197-198: the list came back, the answer is 200 with it
Respond200(t) ==
  /\ local[t].pc = "returned"
  /\ Respond(t, 200, "", local[t].all_flashcards)
  /\ UNCHANGED <<env, retries, chunk_size, api_key_cycler, API_KEYS_LIST,
                 genai_key, drawLog, hist>>


\* --------------------------------------- process_text_in_chunks_for_api
\* A slice that runs one character into the next chunk
SliceOneMore(text, i, size) ==
  SubSeq(text, i + 1, IF i + size + 1 < Len(text) THEN i + size + 1 ELSE Len(text))

\* full_text[i:i + chunk_size]
Slice(text, i, size) ==
  SubSeq(text, i + 1, IF i + size < Len(text) THEN i + size ELSE Len(text))

\* A range that stops one character short of the end of the text
InRangeStopEarly(i, text_len) == i < text_len - 1

\* range(0, text_len, chunk_size) still has the offset i
InRange(i, text_len) == i < text_len

\* lines 142-146: the next chunk is cut and handed to the call
ChunkNext(t) ==
  /\ local[t].pc = "loop"
  /\ InRange(local[t].offset, Len(local[t].pdf_text))
  /\ LET c == Slice(local[t].pdf_text, local[t].offset, chunk_size) IN
     /\ local' = [local EXCEPT ![t].pc = "call_enter", ![t].chunk = c]
     /\ hist' = [hist EXCEPT ![t].calls =
                   Append(@, [offset |-> local[t].offset, chunk |-> c]),
                   ![t].call = NoCall]
  /\ UNCHANGED <<env, retries, chunk_size, api_key_cycler, API_KEYS_LIST,
                 genai_key, drawLog>>

\* line 151: the loop is over, return all_flashcards
LoopExit(t) ==
  /\ local[t].pc = "loop"
  /\ ~InRange(local[t].offset, Len(local[t].pdf_text))
  /\ local' = [local EXCEPT ![t].pc = "returned"]
  /\ UNCHANGED <<env, retries, chunk_size, api_key_cycler, API_KEYS_LIST,
                 genai_key, drawLog, hist>>

\* The chunk's records put in front of the list
ExtendInFront(all, data) == IF data # << >> THEN data \o all ELSE all

\* all_flashcards after `if chunk_data: all_flashcards.extend(chunk_data)`
Extend(all, data) == IF data # << >> THEN all \o data ELSE all

\* lines 147-148: the call has returned
Collect(t) ==
  /\ local[t].pc = "after_call"
  /\ local' = [local EXCEPT ![t].pc = "chunk_sleep",
                 ![t].all_flashcards = Extend(@, local[t].chunk_data)]
  /\ hist' = [hist EXCEPT ![t].results = Append(@, local[t].chunk_data),
                ![t].call = NoCall]
  /\ UNCHANGED <<env, retries, chunk_size, api_key_cycler, API_KEYS_LIST,
                 genai_key, drawLog>>

\* The loop with the sleep between chunks only, none after the last one
ChunkSleepNotLast(t) ==
  /\ local[t].pc = "chunk_sleep"
  /\ local' = [local EXCEPT ![t].pc = "loop", ![t].offset = @ + chunk_size]
  /\ hist' = [hist EXCEPT ![t].pauses =
                IF InRange(local[t].offset + chunk_size, Len(local[t].pdf_text))
                THEN Append(@, 1) ELSE @]
  /\ UNCHANGED <<env, retries, chunk_size, api_key_cycler, API_KEYS_LIST,
                 genai_key, drawLog>>

\* line 149, time.sleep(1), and the loop's step to the next offset
ChunkSleep(t) ==
  /\ local[t].pc = "chunk_sleep"
  /\ local' = [local EXCEPT ![t].pc = "loop", ![t].offset = @ + chunk_size]
  /\ hist' = [hist EXCEPT ![t].pauses = Append(@, 1)]
  /\ UNCHANGED <<env, retries, chunk_size, api_key_cycler, API_KEYS_LIST,
                 genai_key, drawLog>>

\* ---------------------------------------- call_gemini_api_for_extraction
\* `return value` of the call, back at line 146
Return(t, value) ==
  local' = [local EXCEPT ![t].pc = "after_call", ![t].chunk_data = value]

\* lines 86-89: initialize if the cycler is None, then enter the loop
\* (retries >= 1 in every initial state: range(retries) is not empty)
CallEnter(t) ==
  /\ local[t].pc = "call_enter"
  /\ local' = [local EXCEPT ![t].attempt = 0,
                 ![t].ret = IF api_key_cycler = None THEN "call" ELSE @,
                 ![t].pc = IF api_key_cycler = None THEN "init_test" ELSE "draw"]
  /\ UNCHANGED <<env, retries, chunk_size, api_key_cycler, API_KEYS_LIST,
                 genai_key, drawLog, hist>>

\* line 91: current_api_key = next(api_key_cycler)
Draw(t) ==
  /\ local[t].pc = "draw"
  /\ api_key_cycler # None
  /\ local' = [local EXCEPT ![t].pc = "configure",
                 ![t].current_api_key = NextKey(api_key_cycler)]
  /\ api_key_cycler' = Advance(api_key_cycler)
  /\ drawLog' = Append(drawLog, NextKey(api_key_cycler))
  /\ hist' = [hist EXCEPT ![t].call.drawn = Append(@, NextKey(api_key_cycler))]
  /\ UNCHANGED <<env, retries, chunk_size, API_KEYS_LIST, genai_key>>

\* line 92: genai.configure(api_key=current_api_key)
Configure(t) ==
  /\ local[t].pc = "configure"
  /\ genai_key' = local[t].current_api_key
  /\ local' = [local EXCEPT ![t].pc = "generate"]
  /\ UNCHANGED <<env, retries, chunk_size, api_key_cycler, API_KEYS_LIST,
                 drawLog, hist>>

\* lines 106-112: the text json.loads is given
JsonStr(raw_text) ==
  IF RegexSearch(raw_text).found THEN RegexSearch(raw_text).group ELSE raw_text

\* The text, trimmed, or else the array of its first ```json block, is the
\* JSON text of an array
DecodesToArray(r) == JsonLoads(JsonStr(Strip(r))).kind = "list"

\* lines 94-103: generate_content raises, or returns a text that is stripped.
\* The request is sent by the library's default client, which carries the
\* key of the latest genai.configure() of the process.
Generate(t) ==
  /\ local[t].pc = "generate"
  /\ \/ /\ local' = [local EXCEPT ![t].pc = "except"]
        /\ hist' = [hist EXCEPT ![t].call.apiCalls = @ + 1,
                      ![t].call.auth = Append(@, genai_key)]
     \/ \E r \in Responses(local[t].chunk) :
          /\ local' = [local EXCEPT ![t].pc = "got_response",
                         ![t].raw_text = Strip(r)]
          /\ hist' = [hist EXCEPT ![t].call.apiCalls = @ + 1,
                        ![t].call.auth = Append(@, genai_key),
                        ![t].call.firstOk =
                          IF @ = 0 THEN local[t].attempt + 1 ELSE @,
                        ![t].call.nonArray = @ \/ ~DecodesToArray(r),
                        ![t].call.noRecords =
                          @ \/ ~DecodesToArray(r)
                            \/ JsonLoads(JsonStr(Strip(r))).items = << >>]
  /\ UNCHANGED <<env, retries, chunk_size, api_key_cycler, API_KEYS_LIST,
                 genai_key, drawLog>>

\* line 116: len(extracted_data) raises TypeError for a decoded number,
\* boolean or None; the inner `except json.JSONDecodeError` does not catch it
LenRaises(v) == v.ok /\ v.kind \in Unsized

\* line 117: extracted_data if isinstance(extracted_data, list) else []
ListOrEmpty(v) == IF v.kind = "list" THEN v.items ELSE << >>

\* lines 106-121: the response text is searched and decoded
OnResponse(t) ==
  /\ local[t].pc = "got_response"
  /\ LET v == JsonLoads(JsonStr(local[t].raw_text)) IN
     IF ~v.ok THEN Return(t, << >>)
     ELSE IF LenRaises(v) THEN local' = [local EXCEPT ![t].pc = "except"]
     ELSE Return(t, ListOrEmpty(v))
  /\ UNCHANGED <<env, retries, chunk_size, api_key_cycler, API_KEYS_LIST,
                 genai_key, drawLog, hist>>

\* MayRetry with the bound off by one (i < retries)
MayRetryOffByOne(i, n) == i < n

\* line 125: i < retries - 1
MayRetry(i, n) == i < n - 1

\* lines 122-131: `except Exception`: back off, or give up with []
OnFailure(t) ==
  /\ local[t].pc = "except"
  /\ IF MayRetry(local[t].attempt, retries)
     THEN local' = [local EXCEPT ![t].pc = "backoff"]
     ELSE Return(t, << >>)
  /\ UNCHANGED <<env, retries, chunk_size, api_key_cycler, API_KEYS_LIST,
                 genai_key, drawLog, hist>>

\* line 126: sleep_time = delay * (2 ** i)
SleepTime(i) == delay * (2 ^ i)

\* line 128, time.sleep(sleep_time), and the loop's step to the next i
Backoff(t) ==
  /\ local[t].pc = "backoff"
  /\ local' = [local EXCEPT ![t].pc = "draw", ![t].attempt = @ + 1]
  /\ hist' = [hist EXCEPT ![t].call.sleeps = Append(@, SleepTime(local[t].attempt))]
  /\ UNCHANGED <<env, retries, chunk_size, api_key_cycler, API_KEYS_LIST,
                 genai_key, drawLog>>

\* The response is sent and the thread is free again
Complete(t) ==
  /\ local[t].pc = "done"
  /\ local' = [local EXCEPT ![t] = IdleLocal]
  /\ hist' = [hist EXCEPT ![t] = IdleHist]
  /\ UNCHANGED <<env, retries, chunk_size, api_key_cycler, API_KEYS_LIST,
                 genai_key, drawLog>>

\* ------------------------------------------------------- specification
\* The steps of process_text_in_chunks_for_api and of what it calls
Process(t) ==
  \/ ChunkNext(t) \/ LoopExit(t) \/ Collect(t) \/ ChunkSleep(t)
  \/ CallEnter(t) \/ InitTest(t) \/ InitLoad(t) \/ InitDraw(t)
  \/ InitConfigure(t) \/ Draw(t) \/ Configure(t) \/ Generate(t)
  \/ OnResponse(t) \/ OnFailure(t) \/ Backoff(t)

\* The steps of the endpoint around them
Endpoint(t) ==
  \/ ReceiveRequest(t) \/ Validate(t) \/ Extract(t) \/ Catch(t)
  \/ Respond200(t) \/ Complete(t)

\* The server, one request at a time (the single-threaded deployment)
Next == \E t \in SeqThreads : Endpoint(t) \/ Process(t)

Spec == Init /\ [][Next]_vars

\* The steps of a handler that has taken a request, but for OnResponse:
\* each of them is a computation, a sleep, or a PDF or API call that
\* returns or raises
Handler(t) ==
  \/ Validate(t) \/ Extract(t) \/ Catch(t) \/ Respond200(t)
  \/ ChunkNext(t) \/ LoopExit(t) \/ Collect(t) \/ ChunkSleep(t)
  \/ CallEnter(t) \/ InitTest(t) \/ InitLoad(t) \/ InitDraw(t)
  \/ InitConfigure(t) \/ Draw(t) \/ Configure(t) \/ Generate(t)
  \/ OnFailure(t) \/ Backoff(t)

\* A handler keeps running: weak fairness of its steps.  That of OnResponse
\* is written out, the step being enabled exactly at "got_response".
Running(t) ==
  /\ WF_vars(Handler(t))
  /\ ([]<>(local[t].pc # "got_response") \/ []<><<OnResponse(t)>>_vars)

\* A process whose GEMINI_API_KEYS is unset or holds two keys
InitLive ==
  /\ Init
  /\ env \in {EnvUnset, [set |-> TRUE, fields |-> << <<" ", "a">>, <<"b", " ">> >>]}

\* The server, one request at a time, with a handler that keeps running
SpecLive ==
  InitLive /\ [][Next]_vars /\ \A t \in SeqThreads : Running(t)

\* process_text_in_chunks_for_api called on its own, in a fresh process:
\* any text (the empty one too), the cycler not yet initialized
InitDirect ==
  /\ env \in Envs
  /\ retries \in 1..MaxRetries
  /\ chunk_size \in 1..MaxChunkSize
  /\ api_key_cycler = None
  /\ API_KEYS_LIST = << >>
  /\ genai_key = << >>
  /\ drawLog = << >>
  /\ \E text \in Texts :
       local = [t \in Threads |->
                  IF t \in SeqThreads
                  THEN [IdleLocal EXCEPT !.pc = "loop", !.pdf_text = text]
                  ELSE IdleLocal]
  /\ hist = [t \in Threads |-> IdleHist]

NextDirect == \E t \in SeqThreads : Process(t)

SpecDirect == InitDirect /\ [][NextDirect]_vars

\* ------------------------------------------------ the pageRange of a request
\* The page numbers a client names: 0 and MaxPages + 1 lie outside every
\* document of the model
PageNumbers == 0..(MaxPages + 1)

\* What a client lists: a page number, or a range a-b
Items ==
  {[single |-> TRUE, a |-> n, b |-> n] : n \in PageNumbers}
  \cup {[single |-> FALSE, a |-> m, b |-> n] : m \in PageNumbers, n \in PageNumbers}

ItemLists == UNION {[1..k -> Items] : k \in 0..MaxParts}

\* str(n)
RECURSIVE Numeral(_)
Numeral(n) ==
  IF n < 10 THEN <<Digits[n + 1]>>
  ELSE Numeral(n \div 10) \o <<Digits[(n % 10) + 1]>>

\* One item as the client writes it, with or without blanks around it
RenderItem(it, spaced) ==
  IF it.single
  THEN IF spaced THEN <<" ">> \o Numeral(it.a) \o <<" ">> ELSE Numeral(it.a)
  ELSE Numeral(it.a) \o (IF spaced THEN <<" ", "-", " ">> ELSE <<"-">>)
         \o Numeral(it.b)

\* The items joined by commas, as in "1-5,7"
RECURSIVE Render(_, _)
Render(items, spaced) ==
  IF items = << >> THEN << >>
  ELSE IF Len(items) = 1 THEN RenderItem(items[1], spaced)
  ELSE RenderItem(Head(items), spaced) \o <<",">> \o Render(Tail(items), spaced)

\* Strings that are not such a list: a trailing comma, a blank, a range
\* of three numbers, a range without its end
IllFormed ==
  {<<"1", ",">>, <<" ">>, <<"1", "-", "2", "-", "3">>, <<"1", "-">>}

\* The pageRange of a request: absent, written from a list of items, or
\* ill-formed
PageRanges ==
  {[wellFormed |-> TRUE, given |-> FALSE, text |-> << >>, items |-> << >>]}
  \cup {[wellFormed |-> TRUE, given |-> TRUE, text |-> Render(l, sp), items |-> l] :
          l \in ItemLists, sp \in BOOLEAN}
  \cup {[wellFormed |-> FALSE, given |-> TRUE, text |-> ill, items |-> << >>] :
          ill \in IllFormed}

\* lines 185-192 with the PDF given by its pages: extract_text_from_pdf_bytes
\* raises (and line 200 catches), or returns the text of the pages it read;
\* an empty text is answered 400
ExtractPages(t) ==
  /\ local[t].pc = "extract_pages"
  /\ LET sel == PagesToExtract(local[t].page_range, local[t].document)
         text == TextOf(sel.pages) IN
     IF ~sel.ok
     THEN /\ local' = [local EXCEPT ![t].pc = "raised"]
          /\ UNCHANGED hist
     ELSE /\ hist' = [hist EXCEPT ![t].extracted = TRUE]
          /\ IF text = << >>
             THEN local' = [local EXCEPT ![t].pc = "done",
                              ![t].pages_read = sel.pages,
                              ![t].response =
                                 [status |-> 400,
                                  error |-> "No text could be extracted from the PDF.",
                                  flashcards |-> << >>]]
             ELSE local' = [local EXCEPT ![t].pc = "loop", ![t].pdf_text = text,
                              ![t].pages_read = sel.pages,
                              ![t].offset = 0, ![t].all_flashcards = << >>]
  /\ UNCHANGED <<env, retries, chunk_size, api_key_cycler, API_KEYS_LIST,
                 genai_key, drawLog>>

\* The endpoint at line 185 of its first request: one key configured and
\* drawn, a complete body, a PDF of 1..MaxPages pages, and a pageRange that
\* is absent, written from a list of items, or ill-formed
InitPdf ==
  /\ env = [set |-> TRUE, fields |-> << <<"a">> >>]
  /\ retries = MaxRetries
  /\ chunk_size = MaxChunkSize
  /\ API_KEYS_LIST = ParseKeys(env.fields)
  /\ api_key_cycler = Advance(Cycle(API_KEYS_LIST))
  /\ genai_key = API_KEYS_LIST[1]
  /\ drawLog = <<API_KEYS_LIST[1]>>
  /\ \E n \in 1..MaxPages : \E r \in PageRanges :
       /\ local = [t \in Threads |->
            IF t \in SeqThreads
            THEN [IdleLocal EXCEPT
                    !.pc = "extract_pages",
                    !.data = [shape |-> "object", pdfContent |-> "pdf",
                              customPrompt |-> "prompt"],
                    !.document = n,
                    !.page_range = [given |-> r.given, text |-> r.text]]
            ELSE IdleLocal]
       /\ hist = [t \in Threads |->
            IF t \in SeqThreads
            THEN [IdleHist EXCEPT !.wellFormed = r.wellFormed, !.items = r.items]
            ELSE IdleHist]

NextPdf == \E t \in SeqThreads : ExtractPages(t) \/ Catch(t)

SpecPdf == InitPdf /\ [][NextPdf]_vars

\* The server with a thread per request (the WSGI server runs the handler of
\* each request on a thread of the one process, and the globals are shared).
\* The requests handled side by side are kept small: no body or a complete
\* one, a text of at most ConcTextLen characters, an API that fails or
\* answers the array of the chunk, a pool of two or three different keys.
ConcBodies ==
  {[shape |-> "none", pdfContent |-> "absent", customPrompt |-> "absent"],
   [shape |-> "object", pdfContent |-> "pdf", customPrompt |-> "prompt"]}

ConcInputs ==
  \A t \in Threads :
    /\ local[t].data \in ConcBodies
    /\ Len(local[t].pdf_text) <= ConcTextLen
    /\ local[t].pc = "got_response" => local[t].raw_text = ArrayOf(local[t].chunk)

InitConc ==
  /\ Init
  /\ env.set
  /\ Len(ParseKeys(env.fields)) > 1
  /\ \A i, j \in 1..Len(ParseKeys(env.fields)) :
       i # j => ParseKeys(env.fields)[i] # ParseKeys(env.fields)[j]
  /\ retries <= ConcRetries
  /\ chunk_size = 1

NextConc ==
  \E t \in Threads :
    \/ (ReceiveRequest(t) /\ ConcInputs')
    \/ (Extract(t) /\ ConcInputs')
    \/ (Generate(t) /\ ConcInputs')
    \/ Validate(t) \/ Catch(t) \/ Respond200(t) \/ Complete(t)
    \/ ChunkNext(t) \/ LoopExit(t) \/ Collect(t) \/ ChunkSleep(t)
    \/ CallEnter(t) \/ InitTest(t) \/ InitLoad(t) \/ InitDraw(t)
    \/ InitConfigure(t) \/ Draw(t) \/ Configure(t)
    \/ OnResponse(t) \/ OnFailure(t) \/ Backoff(t)

SpecConc == InitConc /\ [][NextConc]_vars


\* ================================================================ claims
CallPcs == {"draw", "configure", "generate", "got_response", "except",
            "backoff", "after_call"}

\* What the response text r stands for as records: the array it decodes to
\* (from its first ```json block, or else from the whole trimmed text), or
\* no record when it decodes to no array
ParsedResult(r) ==
  IF DecodesToArray(r) THEN JsonLoads(JsonStr(Strip(r))).items ELSE << >>

\* C1: once generate_content has returned a text for a chunk, whatever the
\* text, the call returns on that attempt: it never goes on to a backoff
\* sleep, a further draw or a further API call.
C1_ReturnsOnFirstResponse ==
  \A t \in Threads :
    (local[t].pc \in CallPcs /\ hist[t].call.firstOk > 0) =>
      /\ local[t].pc \in {"got_response", "except", "after_call"}
      /\ hist[t].call.apiCalls = hist[t].call.firstOk
      /\ Len(hist[t].call.drawn) = hist[t].call.firstOk

\* C2: when every generate_content call of a chunk raises, the call makes
\* exactly `retries` attempts, draws one key per attempt, and returns [] to
\* the chunk loop (no exception leaves it).
C2_AllAttemptsFail ==
  \A t \in Threads :
    (local[t].pc \in CallPcs /\ hist[t].call.firstOk = 0) =>
      /\ hist[t].call.apiCalls <= retries
      /\ Len(hist[t].call.drawn) \in
           {hist[t].call.apiCalls, hist[t].call.apiCalls + 1}
      /\ Len(hist[t].call.drawn) <= retries
      /\ (hist[t].call.apiCalls = retries) => local[t].pc \in {"except", "after_call"}
      /\ (local[t].pc = "after_call") =>
           /\ hist[t].call.apiCalls = retries
           /\ Len(hist[t].call.drawn) = retries
           /\ local[t].chunk_data = << >>

\* A call whose three attempts all failed has returned
C2_Witness ==
  \E t \in Threads :
    /\ local[t].pc = "after_call"
    /\ hist[t].call.firstOk = 0
    /\ hist[t].call.apiCalls = 3
    /\ retries = 3

\* The keys drawn by a call are consecutive in rotation order
Consecutive(drawn, pool) ==
  \A k \in 1..(Len(drawn) - 1) :
    \E i \in 1..Len(pool) :
      /\ drawn[k] = pool[i]
      /\ drawn[k + 1] = pool[(i % Len(pool)) + 1]

Distinct(seq) == \A i, j \in 1..Len(seq) : i # j => seq[i] # seq[j]

KeySet(pool) == {pool[i] : i \in 1..Len(pool)}

\* C3: when the first f attempts raise and attempt f+1 gets a text, the call
\* returns the records of that text and has drawn exactly f+1 keys, one per
\* attempt, consecutive in rotation order and pairwise distinct when the
\* pool holds at least f+1 different keys.
C3_SucceedsAfterFailures ==
  \A t \in Threads :
    (local[t].pc = "after_call" /\ hist[t].call.firstOk > 0) =>
      /\ Len(hist[t].call.drawn) = hist[t].call.firstOk
      /\ hist[t].call.apiCalls = hist[t].call.firstOk
      /\ local[t].chunk_data = ParsedResult(local[t].raw_text)
      /\ Consecutive(hist[t].call.drawn, API_KEYS_LIST)
      /\ Cardinality(KeySet(API_KEYS_LIST)) >= hist[t].call.firstOk
           => Distinct(hist[t].call.drawn)


\* How often key k occurs in the sequence
RECURSIVE Count(_, _)
Count(seq, k) ==
  IF seq = << >> THEN 0
  ELSE (IF Head(seq) = k THEN 1 ELSE 0) + Count(Tail(seq), k)

\* How many of N draws fall on pool position i: N // K, plus one for the
\* first N % K positions
Turns(N, K, i) == (N \div K) + (IF i <= N % K THEN 1 ELSE 0)

RECURSIVE SumTurns(_, _, _, _)
SumTurns(pool, k, N, i) ==
  IF i > Len(pool) THEN 0
  ELSE (IF pool[i] = k THEN Turns(N, Len(pool), i) ELSE 0)
       + SumTurns(pool, k, N, i + 1)

\* C4: with one request at a time, the n-th draw from the cycler, by
\* initialize_gemini_api_keys or by an attempt, returns pool[(n-1) mod K],
\* so after N draws every pool position has had N // K turns, plus one for
\* the first N mod K positions.
C4_RoundRobin ==
  LET K == Len(API_KEYS_LIST)
      N == Len(drawLog) IN
  (api_key_cycler # None) =>
    /\ K >= 1
    /\ \A n \in 1..N : drawLog[n] = API_KEYS_LIST[((n - 1) % K) + 1]
    /\ \A k \in KeySet(API_KEYS_LIST) :
         Count(drawLog, k) = SumTurns(API_KEYS_LIST, k, N, 1)
    /\ NextKey(api_key_cycler) = API_KEYS_LIST[(N % K) + 1]

\* Draws by the initialization and by attempts, after a failed attempt,
\* past the end of a pool of two and of three keys
C4_Witness ==
  \E t \in Threads :
    /\ Len(API_KEYS_LIST) >= 2
    /\ Len(drawLog) > 2 * Len(API_KEYS_LIST)
    /\ Len(hist[t].call.drawn) >= 2
    /\ hist[t].call.firstOk = 0


\* ceil(L / S)
CeilDiv(L, S) == (L + S - 1) \div S

RECURSIVE Flatten(_)
Flatten(lists) ==
  IF lists = << >> THEN << >> ELSE Head(lists) \o Flatten(Tail(lists))

\* The chunks handed to the call so far, in order
ChunksOf(t) == [i \in 1..Len(hist[t].calls) |-> hist[t].calls[i].chunk]

RECURSIVE SumLen(_)
SumLen(lists) ==
  IF lists = << >> THEN 0 ELSE Len(Head(lists)) + SumLen(Tail(lists))

\* process_text_in_chunks_for_api has returned its list
LoopDone(t) ==
  \/ local[t].pc = "returned"
  \/ local[t].pc = "done" /\ local[t].response.status = 200

\* C5: for a text of L >= 1 characters the call is made once per chunk, in
\* increasing offset order and never before the previous call has returned,
\* ceil(L / chunk_size) times in all, and the list returned is the
\* per-chunk lists concatenated in chunk order.
C5_OneCallPerChunkInOrder ==
  \A t \in Threads :
    LET L == Len(local[t].pdf_text)
        calls == hist[t].calls
        results == hist[t].results IN
    (L >= 1) =>
      /\ Len(results) <= Len(calls)
      /\ Len(calls) <= Len(results) + 1
      /\ Len(calls) <= CeilDiv(L, chunk_size)
      /\ \A i \in 1..Len(calls) :
           /\ calls[i].offset = (i - 1) * chunk_size
           /\ calls[i].chunk = Slice(local[t].pdf_text, calls[i].offset, chunk_size)
      /\ local[t].pc \notin CallPcs \cup {"call_enter"}
           => local[t].all_flashcards = Flatten(results)
      /\ LoopDone(t) =>
           /\ Len(calls) = CeilDiv(L, chunk_size)
           /\ Len(results) = Len(calls)
           /\ local[t].all_flashcards = Flatten(results)
      /\ (local[t].pc = "done" /\ local[t].response.status = 200) =>
           local[t].response.flashcards = Flatten(results)

\* A text of three chunks answered with the records of all three
C5_Witness ==
  \E t \in Threads :
    /\ local[t].pc = "done"
    /\ local[t].response.status = 200
    /\ Len(hist[t].calls) = 3
    /\ \A i \in 1..3 : hist[t].results[i] # << >>
    /\ Len(local[t].response.flashcards) = 3

\* C6: a chunk whose attempts all fail, or whose response does not decode to
\* a JSON array, contributes no record; the later chunks are still sent, the
\* other chunks' records are all in the result, and the answer is 200 with
\* the aggregated list.
C6_ChunkFailureAbsorbed ==
  \A t \in Threads :
    /\ (local[t].pc = "after_call"
        /\ (hist[t].call.firstOk = 0 \/ hist[t].call.nonArray))
         => local[t].chunk_data = << >>
    /\ (local[t].pc = "done" /\ hist[t].calls # << >>) =>
         /\ local[t].response.status = 200
         /\ Len(hist[t].calls) = CeilDiv(Len(local[t].pdf_text), chunk_size)
         /\ local[t].response.flashcards = Flatten(hist[t].results)

\* C7: the chunks cut from a text T with chunk_size S are contiguous and do
\* not overlap: ceil(len(T) / S) of them, all of length S but the last, of
\* length 1..S, their lengths summing to len(T), their concatenation T; the
\* empty text gives no chunk.
C7_ChunksPartitionText ==
  \A t \in Threads :
    LET T == local[t].pdf_text
        c == ChunksOf(t)
        n == Len(hist[t].calls) IN
    /\ \A i \in 1..n :
         /\ hist[t].calls[i].offset = SumLen(SubSeq(c, 1, i - 1))
         /\ c[i] = SubSeq(T, hist[t].calls[i].offset + 1,
                          hist[t].calls[i].offset + Len(c[i]))
         /\ i < n => Len(c[i]) = chunk_size
         /\ Len(c[i]) >= 1 /\ Len(c[i]) <= chunk_size
    /\ local[t].pc = "returned" =>
         /\ n = CeilDiv(Len(T), chunk_size)
         /\ SumLen(c) = Len(T)
         /\ Flatten(c) = T
         /\ T = << >> => n = 0

\* A text of three characters cut with chunk_size 2: the last chunk is short
C7_Witness ==
  \E t \in Threads :
    /\ local[t].pc = "returned"
    /\ Len(local[t].pdf_text) = 3
    /\ chunk_size = 2
    /\ Len(hist[t].calls) = 2
    /\ Len(hist[t].calls[2].chunk) = 1

\* C8: the records of a response text are those of ParsedResult: the array
\* decoded from the first ```json block or else from the whole trimmed
\* text, unchanged; and [] when that text is no JSON or decodes to an
\* object, string, number, boolean or null, without an exception: the step
\* that handles a response text returns exactly that.
C8_ParseContract ==
  [][\A t \in Threads :
       local[t].pc = "got_response" =>
         /\ local'[t].pc = "after_call"
         /\ local'[t].chunk_data = ParsedResult(local[t].raw_text)]_vars

\* C9: a job whose extracted text is empty, or whose customPrompt is empty,
\* is answered 400 and none of its chunks is sent to the API.
C9_EmptyInputRejected ==
  \A t \in Threads :
    (hist[t].extracted
     /\ (local[t].pdf_text = << >> \/ local[t].data.customPrompt = "")) =>
      /\ hist[t].calls = << >>
      /\ hist[t].call.apiCalls = 0
      /\ local[t].pc = "done" => local[t].response.status = 400

\* The caller input problems: no body, a field missing, pdfContent empty
InputProblem(d) ==
  \/ d.shape = "none"
  \/ /\ d.shape \in {"object", "array"}
     /\ (d.pdfContent = "absent" \/ d.customPrompt = "absent" \/ d.pdfContent = "")

\* GEMINI_API_KEYS holds at least one key
ValidEnv == env.set /\ \E i \in 1..Len(env.fields) : Strip(env.fields[i]) # << >>

C11_InvalidConfigFails ==
  /\ ~ValidEnv =>
       /\ api_key_cycler = None
       /\ drawLog = << >>
       /\ genai_key = << >>
       /\ \A t \in Threads :
            /\ local[t].pc \in {"idle", "init_test", "init_load", "done"}
            /\ hist[t].calls = << >>
            /\ hist[t].call.apiCalls = 0
            /\ local[t].pc = "done" =>
                 /\ local[t].response.status = 500
                 /\ local[t].response.error = "Server configuration error"
  /\ api_key_cycler # None =>
       /\ api_key_cycler.saved = API_KEYS_LIST
       /\ Len(API_KEYS_LIST) >= 1
       /\ \A i \in 1..Len(API_KEYS_LIST) : API_KEYS_LIST[i] # << >>

\* A request answered 500 because the variable holds only blank entries
C11_Witness ==
  \E t \in Threads :
    /\ env.set
    /\ env.fields = << <<" ">>, << >> >>
    /\ local[t].pc = "done"
    /\ local[t].response.status = 500
    /\ api_key_cycler = None

\* The backoff sleeps of a call follow the schedule d, 2d, 4d, ..., one
\* after each failed attempt but the last
BackoffSchedule(t) ==
  LET s == hist[t].call.sleeps IN
  /\ \A a \in 1..Len(s) : s[a] = delay * (2 ^ (a - 1))
  /\ \A a \in 1..(Len(s) - 1) : s[a] < s[a + 1]
  /\ Len(s) <= retries - 1
  /\ hist[t].call.firstOk = 0 =>
       Len(s) = IF local[t].pc \in {"draw", "configure", "generate"}
                THEN hist[t].call.apiCalls ELSE hist[t].call.apiCalls - 1

\* C12: after the failure of attempt a < retries the call sleeps exactly
\* delay * 2^(a-1) seconds before attempt a+1, so the sleeps of a call are
\* strictly increasing; there is no sleep after the last attempt's failure,
\* and no sleep follows an attempt whose generate_content call succeeded.
C12_BackoffSchedule ==
  \A t \in Threads :
    local[t].pc \in CallPcs =>
      /\ BackoffSchedule(t)
      /\ hist[t].call.firstOk > 0 =>
           Len(hist[t].call.sleeps) = hist[t].call.firstOk - 1

\* C13: the chunk loop sleeps one second exactly once after each chunk's
\* call has returned, whatever it returned, the last chunk included: the
\* call for chunk i+1 is entered only after the sleep that follows chunk i,
\* and a job of N chunks has slept N times when the loop returns.
C13_OneDelayPerChunk ==
  \A t \in Threads :
    LET n == Len(hist[t].calls)
        r == Len(hist[t].results)
        p == hist[t].pauses IN
    /\ \A i \in 1..Len(p) : p[i] = 1
    /\ Len(p) = IF local[t].pc = "chunk_sleep" THEN r - 1 ELSE r
    /\ local[t].pc \in CallPcs \cup {"call_enter"} => Len(p) = n - 1
    /\ LoopDone(t) =>
         /\ Len(p) = n
         /\ n = CeilDiv(Len(local[t].pdf_text), chunk_size)

\* A job of three chunks, the first with records and the second without,
\* has slept three times
C13_Witness ==
  \E t \in Threads :
    /\ local[t].pc = "done"
    /\ local[t].response.status = 200
    /\ Len(hist[t].calls) = 3
    /\ hist[t].results[1] # << >>
    /\ hist[t].results[2] = << >>
    /\ hist[t].pauses = <<1, 1, 1>>

\* C14: every generate_content call of a call goes out under the key that
\* the same attempt drew, also when requests are handled side by side on
\* threads of the one process.
C14_CallUnderOwnKey ==
  \A t \in Threads :
    \A i \in 1..Len(hist[t].call.auth) :
      hist[t].call.auth[i] = hist[t].call.drawn[i]

\* C15: with requests handled side by side every draw takes its own turn:
\* each draw returns the key after the one the draw before it returned, the
\* cursor stands N turns from the start after N draws (never reset, never
\* corrupted), and every pool position has had N // K turns, plus one for
\* the first N mod K.
C15_DrawsTakeTurns ==
  LET K == Len(API_KEYS_LIST)
      N == Len(drawLog) IN
  (api_key_cycler # None) =>
    /\ api_key_cycler.saved = API_KEYS_LIST
    /\ api_key_cycler.pos = (N % K) + 1
    /\ \A n \in 1..(N - 1) :
         \E i \in 1..K :
           drawLog[n] = API_KEYS_LIST[i] /\ drawLog[n + 1] = API_KEYS_LIST[(i % K) + 1]
    /\ \A i \in 1..K : Count(drawLog, API_KEYS_LIST[i]) = Turns(N, K, i)

\* C16: a call whose API answered an empty array, a call whose response did
\* not decode to an array and a call whose attempts all failed return the
\* same value, the empty list; and a job whose calls all returned it is
\* answered 200 with an empty flashcards list, whichever of the three
\* cases each call was.
C16_NoFailureSignal ==
  \A t \in Threads :
    /\ (local[t].pc = "after_call"
        /\ (hist[t].call.firstOk = 0 \/ hist[t].call.noRecords))
         => local[t].chunk_data = << >>
    /\ (/\ local[t].pc = "done"
        /\ hist[t].calls # << >>
        /\ \A i \in 1..Len(hist[t].results) : hist[t].results[i] = << >>) =>
         /\ local[t].response.status = 200
         /\ local[t].response.flashcards = << >>

\* C17: with one request at a time every key drawn from the cycler is used
\* for exactly one API attempt: every draw is the draw of an attempt, which
\* takes the key at the cursor and moves the cursor one turn, and the
\* attempt's API call goes out under that key; so the keys of successive
\* attempts are consecutive in pool order, and a request answered before
\* any attempt has drawn nothing.
C17_EveryDrawIsAnAttempt ==
  [][/\ drawLog' # drawLog =>
          \E t \in Threads :
            /\ local[t].pc = "draw"
            /\ local'[t].pc = "configure"
            /\ local'[t].current_api_key = NextKey(api_key_cycler)
            /\ api_key_cycler' = Advance(api_key_cycler)
     /\ \A t \in Threads :
          Len(hist'[t].call.auth) > Len(hist[t].call.auth) =>
            hist'[t].call.auth[Len(hist'[t].call.auth)] = local[t].current_api_key]_vars

\* C18: once the cycler exists, no step of any thread replaces the pool or
\* the cycler, or moves the cursor other than by the one turn of a draw,
\* however the first requests interleave.
C18_InitializedOnce ==
  [][api_key_cycler # None =>
       /\ API_KEYS_LIST' = API_KEYS_LIST
       /\ api_key_cycler' = IF drawLog' # drawLog THEN Advance(api_key_cycler)
                            ELSE api_key_cycler]_vars

\* What holds of a request in every state: a response exists only once the
\* handler is done; a call has returned after 1..retries API attempts; and
\* a response with status 200 is given only after every chunk of the text
\* has been handed to the call and the call has returned for each.
WalkedBeforeResponse(t) ==
  /\ local[t].response # NoResponse => local[t].pc = "done"
  /\ local[t].pc = "after_call" =>
       /\ hist[t].call.apiCalls >= 1
       /\ hist[t].call.apiCalls <= retries
  /\ local[t].response.flashcards # << >> => local[t].response.status = 200
  /\ local[t].response.status = 200 =>
       /\ Len(hist[t].calls) = CeilDiv(Len(local[t].pdf_text), chunk_size)
       /\ Len(hist[t].results) = Len(hist[t].calls)
       /\ local[t].offset >= Len(local[t].pdf_text)

\* C19: every request the endpoint has taken is eventually answered, and
\* answered once: the response is written in one step and not changed until
\* the handler is free again; a job of N chunks is answered 200 only after
\* N calls that each made 1..retries API attempts (N..N*retries in all).
C19_RespondsOnceAfterAllChunks ==
  /\ \A t \in SeqThreads : (local[t].pc # "idle") ~> (local[t].pc = "done")
  /\ [](\A t \in Threads : WalkedBeforeResponse(t))
  /\ [][\A t \in Threads :
          local'[t].response # local[t].response =>
            \/ local[t].response = NoResponse /\ local'[t].pc = "done"
            \/ local[t].pc = "done" /\ local'[t].pc = "idle"]_vars

\* A job of two chunks answered 200 after four API attempts
C19_Witness ==
  \E t \in Threads :
    /\ local[t].pc = "done"
    /\ local[t].response.status = 200
    /\ Len(hist[t].calls) = 2
    /\ retries = 2
    /\ Len(drawLog) = 5

\* C20: for a document of P pages and a page range written as a list of
\* page numbers and a-b ranges, extract_text_from_pdf_bytes does not raise
\* and reads exactly the pages of 1..P that the list names, each once, in
\* ascending order; the text is theirs in that order; when no page of 1..P
\* is named the text is empty and the answer is 400; an absent or empty
\* range selects every page 1..P
NamedPages(t) ==
  IF hist[t].items = << >> THEN 1..local[t].document
  ELSE {p \in 1..local[t].document :
          \E i \in 1..Len(hist[t].items) :
            hist[t].items[i].a <= p /\ p <= hist[t].items[i].b}

C20_PagesOfRange ==
  \A t \in SeqThreads :
    (hist[t].wellFormed /\ local[t].document > 0
       /\ local[t].pc # "extract_pages") =>
      LET read == local[t].pages_read IN
      /\ local[t].pc # "raised"
      /\ local[t].response.status # 500
      /\ {read[i] : i \in 1..Len(read)} = NamedPages(t)
      /\ Len(read) = Cardinality(NamedPages(t))
      /\ \A i \in 1..Len(read) : \A j \in 1..Len(read) : i < j => read[i] < read[j]
      /\ IF NamedPages(t) = {}
         THEN local[t].pc = "done" /\ local[t].response.status = 400
         ELSE /\ local[t].pc = "loop"
              /\ Len(local[t].pdf_text) = Len(read)
              /\ \A i \in 1..Len(read) : <<local[t].pdf_text[i]>> = PageText(read[i])

\* The range "2,1-3" on a document of two pages: page 2 is named twice
\* and first, page 3 is outside the document; pages 1 and 2 were read
C20_Witness ==
  \E t \in SeqThreads :
    /\ local[t].pc = "loop"
    /\ local[t].document = 2
    /\ local[t].page_range = [given |-> TRUE, text |-> <<"2", ",", "1", "-", "3">>]
    /\ hist[t].items = <<[single |-> TRUE, a |-> 2, b |-> 2],
                         [single |-> FALSE, a |-> 1, b |-> 3]>>
    /\ local[t].pages_read = <<1, 2>>

====
